---------------------------- MODULE Spec2Model ----------------------------
(***************************************************************************)
(* Entropic-regularised optimal transport by IPFP / Sinkhorn scaling, as   *)
(* coded in the notebook "Block 5: Optimal transport with entropic         *)
(* regularization" (src/unnamed/part_000): the matrix IPFP cell, the       *)
(* log-domain IPFP cell and the IPFP cell with the log-sum-exp trick.      *)
(*                                                                         *)
(* NUMBERS.  The notebook computes in numpy float64.  The model keeps the  *)
(* features of that arithmetic the cells depend on: every operation        *)
(* rounds, large results overflow to +inf / -inf, small ones underflow to  *)
(* 0, log(0) = -inf, 0 * inf = inf - inf = inf / inf = 0 / 0 = nan, nan    *)
(* propagates, and every comparison with nan is false.  A number is an     *)
(* integer: a finite value x stands for x / ONE (a grid of step 1/ONE,     *)
(* range -MAXF/ONE .. MAXF/ONE), and PINF, NINF, NAN are three integers    *)
(* outside the finite range.  So the format is a "small float64": it       *)
(* overflows near exp(7.6) instead of exp(709) and rounds at 1e-3 instead  *)
(* of 1e-16; tolerances of the model are chosen well above its rounding.   *)
(***************************************************************************)
EXTENDS Integers, Sequences, FiniteSets, TLC

\* one unit of the grid is 1/ONE
ONE == 1000
\* largest finite magnitude, in grid units
MAXF == 2000000

PINF == MAXF + 1
NINF == -PINF
NAN == PINF + 1

IsNaN(x) == x = NAN
IsFin(x) == NINF < x /\ x < PINF

\* a / b rounded to the nearest integer, halves away from zero (b > 0)
RDiv(a, b) == IF a >= 0 THEN (a + b \div 2) \div b
                       ELSE -((-a + b \div 2) \div b)

\* overflow of a finite result
Clamp(s) == IF s > MAXF THEN PINF ELSE IF s < -MAXF THEN NINF ELSE s

Sgn(x) == IF x > 0 THEN 1 ELSE IF x < 0 THEN -1 ELSE 0
Mag(x) == IF x < 0 THEN -x ELSE x

\* unary minus
FNeg(x) == IF IsNaN(x) THEN NAN ELSE -x

\* x + y
FAdd(x, y) ==
    IF IsNaN(x) \/ IsNaN(y) THEN NAN
    ELSE IF ~IsFin(x) THEN (IF ~IsFin(y) /\ y # x THEN NAN ELSE x)
    ELSE IF ~IsFin(y) THEN y
    ELSE Clamp(x + y)

\* x - y
FSub(x, y) == FAdd(x, FNeg(y))

\* x * y
FMul(x, y) ==
    IF IsNaN(x) \/ IsNaN(y) THEN NAN
    ELSE IF ~IsFin(x) \/ ~IsFin(y)
         THEN (IF x = 0 \/ y = 0 THEN NAN
               ELSE IF Sgn(x) * Sgn(y) > 0 THEN PINF ELSE NINF)
    ELSE LET ax == Mag(x)
             ay == Mag(y)
             hi == ax \div ONE
             lo == ax % ONE
             m  == IF hi > 0 /\ ay > MAXF \div hi THEN PINF
                   ELSE Clamp(hi * ay + (lo * ay + ONE \div 2) \div ONE)
         IN  IF Sgn(x) * Sgn(y) >= 0 THEN m ELSE -m

\* x / y (numpy: a division by zero warns and yields inf or nan)
FDiv(x, y) ==
    IF IsNaN(x) \/ IsNaN(y) THEN NAN
    ELSE IF ~IsFin(x) THEN (IF ~IsFin(y) THEN NAN ELSE IF y >= 0 THEN x ELSE -x)
    ELSE IF ~IsFin(y) THEN 0
    ELSE IF y = 0 THEN (IF x = 0 THEN NAN ELSE IF x > 0 THEN PINF ELSE NINF)
    ELSE LET m == Clamp(RDiv(Mag(x) * ONE, Mag(y)))
         IN  IF Sgn(x) * Sgn(y) >= 0 THEN m ELSE -m

\* abs(x)
FAbs(x) == IF IsNaN(x) THEN NAN ELSE Mag(x)

\* x > y, x <= y : false when either is nan
FGt(x, y) == ~IsNaN(x) /\ ~IsNaN(y) /\ x > y
FLe(x, y) == ~IsNaN(x) /\ ~IsNaN(y) /\ x <= y

\* np.exp and np.log work to a precision finer than the grid: IS = 10 * ONE
IS == 10 * ONE
\* ln 2 times 10^6
Ln2 == 693147

RECURSIVE ExpSeries(_, _, _, _)
\* the Taylor series of e^r from term k on; t is term k-1, s the sum so far
ExpSeries(t, r, k, s) ==
    IF k > 7 THEN s
    ELSE LET t2 == RDiv(t * r, k * IS) IN ExpSeries(t2, r, k + 1, s + t2)

\* np.exp(x): x = k ln2 + r, e^x = 2^k e^r
FExp(x) ==
    IF IsNaN(x) THEN NAN
    ELSE IF x = PINF THEN PINF
    ELSE IF x = NINF THEN 0
    ELSE LET k == RDiv(x * 1000, Ln2)
         IN  IF k > 11 THEN PINF
             ELSE IF k < -12 THEN 0
             ELSE LET r == x * 10 - RDiv(k * Ln2, 100)
                      e == ExpSeries(IS, r, 1, IS)
                  IN  Clamp(IF k >= 0 THEN RDiv(e * 2^k, 10)
                                      ELSE RDiv(e, 10 * 2^(-k)))

RECURSIVE Log2Floor(_, _)
\* the k with 2^k <= y / ONE < 2^(k+1) (y > 0): upwards from 0 when y >= ONE,
\* downwards from -1 otherwise
Log2Floor(y, k) ==
    IF k >= 0 THEN (IF y >= ONE * 2^(k + 1) THEN Log2Floor(y, k + 1) ELSE k)
    ELSE (IF y * 2^(-k) >= ONE THEN k ELSE Log2Floor(y, k - 1))

RECURSIVE LogSeries(_, _, _, _)
\* z + z^3/3 + z^5/5 + ... from the term of odd power j on; t is z^(j-2)
LogSeries(t, z2, j, s) ==
    IF j > 9 THEN s
    ELSE LET t2 == RDiv(t * z2, IS) IN LogSeries(t2, z2, j + 2, s + RDiv(t2, j))

\* np.log(y): y = m 2^k with 1 <= m < 2, log y = k ln2 + 2 atanh((m-1)/(m+1))
FLog(y) ==
    IF IsNaN(y) THEN NAN
    ELSE IF y < 0 THEN NAN
    ELSE IF y = 0 THEN NINF
    ELSE IF y = PINF THEN PINF
    ELSE LET k  == Log2Floor(y, IF y >= ONE THEN 0 ELSE -1)
             m  == IF k >= 0 THEN RDiv(y * 10, 2^k) ELSE y * 10 * 2^(-k)
             z  == RDiv((m - IS) * IS, m + IS)
             z2 == RDiv(z * z, IS)
             s  == LogSeries(z, z2, 3, z)
         IN  RDiv(k * Ln2, 1000) + RDiv(2 * s, 10)

-----------------------------------------------------------------------------
(***************************************************************************)
(* The setup cell: sizes, marginals, surplus matrix, tolerance and cap.    *)
(***************************************************************************)
\* number of types of men and of women
nbX == 5
nbY == 3
Rows == 1..nbX
Cols == 1..nbY

\* largest iteration cap the model draws for maxite
MaxIte == 3

\* Phi comes from the data files: any finite matrix.  The model draws it from
\* PhiOf(amp)[i][j] = amp * ((i * j) mod 4 - 1), amp in PhiAmps.
PhiAmps == {0, 100, 300}
PhiOf(amp) == [i \in Rows |-> [j \in Cols |-> amp * (((i * j) % 4) - 1)]]
\* tol is 1e-9 in the notebook; the model draws it from Tols (0 is not a
\* valid tolerance; inf is one that every iterate meets, and tol + 1 > tol
\* fails for it), and sigma, which each solver cell sets, from Sigmas
Tols == {0, 20, 100, PINF}
Sigmas == {1000, 100, 20}

\* np.repeat(1/n, n)
Uniform(n) == [i \in 1..n |-> FDiv(ONE, n * ONE)]

RECURSIVE FSum(_, _)
\* np.sum of f[1..n]
FSum(f, n) == IF n = 0 THEN 0 ELSE FAdd(FSum(f, n - 1), f[n])

RECURSIVE FMax(_, _)
\* np.max of f[1..n]: nan when any entry is nan
FMax(f, n) ==
    IF n = 1 THEN f[1]
    ELSE LET a == FMax(f, n - 1)
         IN  IF IsNaN(a) \/ IsNaN(f[n]) THEN NAN
             ELSE IF a >= f[n] THEN a ELSE f[n]

(***************************************************************************)
(* The expressions of the matrix IPFP cell.                                *)
(***************************************************************************)
\* K = np.exp(Phi/sigma)
Kernel(Ph, s) == [i \in Rows |-> [j \in Cols |-> FExp(FDiv(Ph[i][j], s))]]
\* a variant: the start B = zeros
OnesAsZeros == [j \in Cols |-> 0]
\* B = two_d(np.repeat(1, nbY)) ; v = np.repeat(0, nbY)
Ones == [j \in Cols |-> ONE]
Zeros == [j \in Cols |-> 0]
\* a variant: the row update without the marginal p
MatANoP(Kk, pp, Bb) ==
    [i \in Rows |-> FDiv(ONE, FSum([j \in Cols |-> FMul(Kk[i][j], Bb[j])], nbY))]
\* A = two_d(p/(K @ B).flatten(order='F'))
MatA(Kk, pp, Bb) ==
    [i \in Rows |-> FDiv(pp[i], FSum([j \in Cols |-> FMul(Kk[i][j], Bb[j])], nbY))]
\* KA = (A.T @ K)
MatKA(Kk, Aa) ==
    [j \in Cols |-> FSum([i \in Rows |-> FMul(Aa[i], Kk[i][j])], nbX)]
\* a variant: the metric taken from KA / q alone, without B
MatErrorNoB(KAa, Bb, qq) ==
    FMax([j \in Cols |-> FAbs(FSub(FDiv(KAa[j], qq[j]), ONE))], nbY)
\* error = np.max(abs(np.multiply(KA,B.flatten()/q)-1))
MatError(KAa, Bb, qq) ==
    FMax([j \in Cols |-> FAbs(FSub(FMul(KAa[j], FDiv(Bb[j], qq[j])), ONE))], nbY)
\* a variant: the column update without the marginal q
MatBNoQ(qq, KAa) == [j \in Cols |-> FDiv(ONE, KAa[j])]
\* B = (q / KA).T
MatB(qq, KAa) == [j \in Cols |-> FDiv(qq[j], KAa[j])]
\* - sigma * np.log(x), entrywise: u and v of the matrix cell, mu and nu of
\* the log cells
MinusSigmaLog(s, x) == [i \in DOMAIN x |-> FMul(FNeg(s), FLog(x[i]))]
\* pi = (K * A) * np.repeat(B, 5, axis = 1).T
MatPi(Kk, Aa, Bb) ==
    [i \in Rows |-> [j \in Cols |-> FMul(FMul(Kk[i][j], Aa[i]), Bb[j])]]
\* np.sum(x * y) of two nbX x nbY matrices
SumProd(x, y) ==
    FSum([i \in Rows |-> FSum([j \in Cols |-> FMul(x[i][j], y[i][j])], nbY)], nbX)
\* np.log(x) of a matrix
LogMat(x) == [i \in Rows |-> [j \in Cols |-> FLog(x[i][j])]]
\* a variant: the entropy term with 0 * log(0) taken as 0
ValueZeroLog(pp, Ph, s) ==
    FSub(SumProd(pp, Ph),
         FMul(s, SumProd(pp, [i \in Rows |-> [j \in Cols |->
                     IF pp[i][j] = 0 THEN 0 ELSE FLog(pp[i][j])]])))
\* val = np.sum(pi * Phi) - sigma * np.sum(pi * np.log(pi))
Value(pp, Ph, s) == FSub(SumProd(pp, Ph), FMul(s, SumProd(pp, LogMat(pp))))

(***************************************************************************)
(* The expressions of the log-domain IPFP cell.                            *)
(***************************************************************************)
\* a variant: the u-update without the offset mu
LogUNoMu(Ph, muu, vv, s) ==
    [i \in Rows |->
        FMul(s, FLog(FSum(
            [j \in Cols |-> FExp(FDiv(FSub(Ph[i][j], vv[j]), s))], nbY)))]
\* u = mu + sigma * np.log(np.sum(np.exp((Phi - v)/sigma), axis=1))
LogU(Ph, muu, vv, s) ==
    [i \in Rows |->
        FAdd(muu[i], FMul(s, FLog(FSum(
            [j \in Cols |-> FExp(FDiv(FSub(Ph[i][j], vv[j]), s))], nbY))))]
\* KA = np.sum(np.exp((Phi - two_d(u)) / sigma), axis=0)
LogKA(Ph, uu, s) ==
    [j \in Cols |-> FSum([i \in Rows |-> FExp(FDiv(FSub(Ph[i][j], uu[i]), s))], nbX)]
\* error = np.max(np.abs(KA * np.exp(-v / sigma) / q - 1))
LogError(KAa, vv, qq, s) ==
    FMax([j \in Cols |->
        FAbs(FSub(FDiv(FMul(KAa[j], FExp(FDiv(FNeg(vv[j]), s))), qq[j]), ONE))], nbY)
\* a variant: the v-update without the offset nu
LogVNoNu(nuu, KAa, s) == [j \in Cols |-> FMul(s, FLog(KAa[j]))]
\* v = nu + sigma * np.log(KA)
LogV(nuu, KAa, s) == [j \in Cols |-> FAdd(nuu[j], FMul(s, FLog(KAa[j])))]
\* pi = np.exp((Phi - two_d(u) - v) / sigma)
LogPi(Ph, uu, vv, s) ==
    [i \in Rows |-> [j \in Cols |->
        FExp(FDiv(FSub(FSub(Ph[i][j], uu[i]), vv[j]), s))]]

(***************************************************************************)
(* The expressions of the cell "IPFP with log-sum-exp trick".              *)
(***************************************************************************)
\* a variant: the shift taken as the row maximum of Phi alone, without v
VStarOfPhi(Ph, vv) == [i \in Rows |-> FMax([j \in Cols |-> Ph[i][j]], nbY)]
\* vstar = np.max(Phi.T - two_d(v), axis = 0)
VStar(Ph, vv) == [i \in Rows |-> FMax([j \in Cols |-> FSub(Ph[i][j], vv[j])], nbY)]
\* a variant: the exponent of the u-update without the shift by vstar
UArgUnshifted(Ph, vv, vs, s, i, j) == FDiv(FSub(Ph[i][j], vv[j]), s)
\* the exponent (Phi - v - two_d(vstar))/sigma of the u-update, entry i, j
UArg(Ph, vv, vs, s, i, j) == FDiv(FSub(FSub(Ph[i][j], vv[j]), vs[i]), s)
\* u = mu + vstar + sigma * np.log(np.sum(np.exp(...), axis=1))
LseU(Ph, muu, vv, vs, s) ==
    [i \in Rows |->
        FAdd(FAdd(muu[i], vs[i]),
             FMul(s, FLog(FSum([j \in Cols |-> FExp(UArg(Ph, vv, vs, s, i, j))], nbY))))]
\* error = np.max(abs(u - uprec))
LseError(uu, up) == FMax([i \in Rows |-> FAbs(FSub(uu[i], up[i]))], nbX)
\* a variant: uprec started at 0
NoPrecZero == [i \in Rows |-> 0]
\* uprec = np.NINF, broadcast against u
NoPrec == [i \in Rows |-> NINF]
\* a variant: the shift taken as the column maximum of Phi alone, without u
UStarOfPhi(Ph, uu) == [j \in Cols |-> FMax([i \in Rows |-> Ph[i][j]], nbX)]
\* ustar = np.max(Phi - two_d(u), axis = 0)
UStar(Ph, uu) == [j \in Cols |-> FMax([i \in Rows |-> FSub(Ph[i][j], uu[i])], nbX)]
\* the exponent (Phi - two_d(u) - ustar)/sigma of the v-update, entry i, j
VArg(Ph, uu, us, s, i, j) == FDiv(FSub(FSub(Ph[i][j], uu[i]), us[j]), s)
\* KA = np.sum(np.exp(...), axis=0)
LseKA(Ph, uu, us, s) ==
    [j \in Cols |-> FSum([i \in Rows |-> FExp(VArg(Ph, uu, us, s, i, j))], nbX)]
\* a variant: the v-update that does not add the shift ustar back
LseVNoShift(nuu, us, KAa, s) ==
    [j \in Cols |-> FAdd(nuu[j], FMul(s, FLog(KAa[j])))]
\* v = nu + ustar + sigma * np.log(KA)
LseV(nuu, us, KAa, s) ==
    [j \in Cols |-> FAdd(FAdd(nuu[j], us[j]), FMul(s, FLog(KAa[j])))]

-----------------------------------------------------------------------------
(***************************************************************************)
(* The state: the notebook kernel's global names.  The cells run in the    *)
(* notebook's order (setup and Gurobi cells, then the three solver cells); *)
(* a cell's loop body is two steps, the row update with the convergence    *)
(* metric and the column update with the counter.                          *)
(***************************************************************************)
VARIABLES
    cell,     \* the cell that is running or ran last
    pc,       \* "ready": the cell has ended; "while": at the loop test;
              \* "body": between the row update and the column update
    msg,      \* what the cell that ran last printed, or that it raised
    kind,     \* what the names A and u are bound to when a cell reads them
    Phi, p, q, tol, maxite,
    sigma, ite, error,
    K, A, B, KA,
    u, v, mu, nu, uprec, vstar, ustar,
    pi, val,
    out,      \* per solver cell, the result it left when it ended
    scaled,   \* history variable: the matrix cell's loop stepped from
              \* B = k * ones instead of ones (the cell never reads it)
    prev,     \* history variable: the row potential (A or u) that the last
              \* row update replaced, the column potential (B or v) that the
              \* last column update replaced
    thr,      \* per thread that executes a log cell's code while the other
              \* does too: its position, the sigma it bound and the column
              \* updates it has made (threads exist only under ConcSpec)
    dims      \* the matrix cell run on nbX = n, nbY = m, shapes only: its
              \* position and the shapes of its arrays (only under SizeSpec)

inputs == <<Phi, p, q, tol, maxite>>
vars == <<cell, pc, msg, kind, Phi, p, q, tol, maxite, sigma, ite, error,
          K, A, B, KA, u, v, mu, nu, uprec, vstar, ustar, pi, val, out, scaled, prev, thr, dims>>

Solvers == {"matrix", "logs", "lse"}
\* the cell that runs before cell c
Before(c) == CASE c = "matrix" -> "setup" [] c = "logs" -> "matrix" [] c = "lse" -> "logs"

\* a name no cell has assigned yet holds no array
Unset == << >>
NoRun == [st |-> "none", sigma |-> 0, ite |-> 0, error |-> 0,
          u |-> Unset, v |-> Unset, pi |-> Unset, val |-> 0]

\* the scalings of the start B = k * ones that the history variable follows
Gauges == {ONE \div 2, 2 * ONE}
NoScaled == [k |-> ONE, A |-> Unset, B |-> Unset, KA |-> Unset, error |-> 0,
             pi |-> Unset, val |-> 0]

\* no update has replaced anything yet
NoPrev == [row |-> Unset, col |-> Unset]

\* the two log cells, as the code of two threads
Calls == {"logs", "lse"}
NoCalls == [t \in Calls |-> [pc |-> "ready", sigma |-> 0, n |-> 0]]

\* the shape of an array: <<r, c>>, or <<n>> for one axis; NoShape is what
\* an expression that raises, or a name not yet assigned, has
NoShape == << >>
NoDims == [n |-> nbX, m |-> nbY, pc |-> "ready", ite |-> 0,
           K |-> NoShape, A |-> NoShape, B |-> NoShape, KA |-> NoShape,
           err |-> NoShape, u |-> NoShape, v |-> NoShape, pi |-> NoShape]

\* The state after the setup cell and the Gurobi cell: the inputs are bound,
\* A is the Gurobi cell's sparse constraint matrix, u is not bound.
Init ==
    /\ cell = "setup" /\ pc = "ready" /\ msg = "none"
    /\ kind = [A |-> "sparse", u |-> "unbound"]
    /\ Phi \in {PhiOf(amp) : amp \in PhiAmps}
    /\ p = Uniform(nbX) /\ q = Uniform(nbY)
    /\ tol \in Tols
    /\ maxite \in 0..MaxIte
    /\ sigma = 0 /\ ite = 0 /\ error = 0
    /\ K = Unset /\ A = Unset /\ B = Unset /\ KA = Unset
    /\ u = Unset /\ v = Unset /\ mu = Unset /\ nu = Unset
    /\ uprec = Unset /\ vstar = Unset /\ ustar = Unset
    /\ pi = Unset /\ val = 0
    /\ out = [c \in Solvers |-> NoRun]
    /\ scaled = NoScaled
    /\ prev = NoPrev
    /\ thr = NoCalls
    /\ dims = NoDims

\* a variant: the cap tested with <= instead of <
ContinueThroughCap == FGt(error, tol) /\ ite <= maxite
\* while error > tol and ite < maxite
Continue == FGt(error, tol) /\ ite < maxite

\* a variant: the report that also looks at the metric
ReportChecksError ==
    IF ite >= maxite \/ ~FLe(error, tol) THEN "maxite" ELSE "converged"
\* if ite >= maxite: print('Maximum number of iteations reached ...') else: ...
Report == IF ite >= maxite THEN "maxite" ELSE "converged"

Result(st, uu, vv, pp, vl) ==
    [st |-> st, sigma |-> sigma, ite |-> ite, error |-> error,
     u |-> uu, v |-> vv, pi |-> pp, val |-> vl]

\* a cell ends by an exception: nothing more is assigned
Raise ==
    /\ pc' = "ready" /\ msg' = "raised"
    /\ out' = [out EXCEPT ![cell] = [NoRun EXCEPT !.st = "raised"]]
    /\ UNCHANGED <<kind, u, v, pi, val>>

(***************************************************************************)
(* Matrix IPFP                                                             *)
(***************************************************************************)
MatrixStart(s) ==
    /\ pc = "ready" /\ cell = Before("matrix")
    /\ cell' = "matrix" /\ pc' = "while"
    /\ ite' = 0
    /\ sigma' = s
    /\ K' = Kernel(Phi, s)
    /\ B' = Ones
    /\ error' = FAdd(tol, ONE)
    /\ \E k \in Gauges :
          scaled' = [NoScaled EXCEPT !.k = k, !.B = [j \in Cols |-> FMul(k, Ones[j])]]
    /\ prev' = NoPrev
    /\ UNCHANGED <<thr, dims, msg, kind, inputs, A, KA, u, v, mu, nu, uprec, vstar, ustar,
                   pi, val, out>>

MatrixRow ==
    /\ cell = "matrix" /\ pc = "while" /\ Continue
    /\ A' = MatA(K, p, B)
    /\ KA' = MatKA(K, A')
    /\ error' = MatError(KA', B, q)
    /\ kind' = [kind EXCEPT !.A = "array"]
    /\ LET SA == MatA(K, p, scaled.B)
           SKA == MatKA(K, SA)
       IN  scaled' = [scaled EXCEPT !.A = SA, !.KA = SKA,
                                    !.error = MatError(SKA, scaled.B, q)]
    /\ pc' = "body"
    /\ prev' = [prev EXCEPT !.row = A]
    /\ UNCHANGED <<thr, dims, cell, msg, inputs, sigma, ite, K, B, u, v, mu, nu, uprec,
                   vstar, ustar, pi, val, out>>

\* a variant: the column update that also forms the coupling, in every
\* iteration
MatrixColWithPi ==
    /\ cell = "matrix" /\ pc = "body"
    /\ B' = MatB(q, KA)
    /\ pi' = MatPi(K, A, B')
    /\ scaled' = [scaled EXCEPT !.B = MatB(q, scaled.KA)]
    /\ ite' = ite + 1
    /\ pc' = "while"
    /\ prev' = [prev EXCEPT !.col = B]
    /\ UNCHANGED <<thr, dims, cell, msg, kind, inputs, sigma, error, K, A, KA, u, v, mu, nu,
                   uprec, vstar, ustar, val, out>>

MatrixCol ==
    /\ cell = "matrix" /\ pc = "body"
    /\ B' = MatB(q, KA)
    /\ scaled' = [scaled EXCEPT !.B = MatB(q, scaled.KA)]
    /\ ite' = ite + 1
    /\ pc' = "while"
    /\ prev' = [prev EXCEPT !.col = B]
    /\ UNCHANGED <<thr, dims, cell, msg, kind, inputs, sigma, error, K, A, KA, u, v, mu, nu,
                   uprec, vstar, ustar, pi, val, out>>

\* the lines after the loop; np.log(A) raises when A is not an array
MatrixEnd ==
    /\ cell = "matrix" /\ pc = "while" /\ ~Continue
    /\ IF kind.A # "array"
       THEN Raise /\ UNCHANGED scaled
       ELSE /\ LET SPi == MatPi(K, scaled.A, scaled.B)
               IN  scaled' = [scaled EXCEPT !.pi = SPi, !.val = Value(SPi, Phi, sigma)]
            /\ u' = MinusSigmaLog(sigma, A)
            /\ v' = MinusSigmaLog(sigma, B)
            /\ pi' = MatPi(K, A, B)
            /\ val' = Value(pi', Phi, sigma)
            /\ kind' = [kind EXCEPT !.u = "array"]
            /\ msg' = Report
            /\ out' = [out EXCEPT ![cell] = Result(Report, u', v', pi', val')]
            /\ pc' = "ready"
    /\ UNCHANGED <<thr, dims, cell, inputs, sigma, ite, error, K, A, B, KA, mu, nu, uprec,
                   vstar, ustar, prev>>

(***************************************************************************)
(* log-domain IPFP                                                         *)
(***************************************************************************)
LogsStart(s) ==
    /\ pc = "ready" /\ cell = Before("logs")
    /\ cell' = "logs" /\ pc' = "while"
    /\ sigma' = s
    /\ ite' = 0
    /\ v' = Zeros
    /\ mu' = MinusSigmaLog(s, p)
    /\ nu' = MinusSigmaLog(s, q)
    /\ error' = FAdd(tol, ONE)
    /\ prev' = NoPrev
    /\ UNCHANGED <<thr, dims, msg, kind, inputs, K, A, B, KA, u, uprec, vstar, ustar, pi,
                   val, out, scaled>>

\* a variant: the metric taken at the top of the body, from the KA of the
\* iteration before
LogsRowErrorFirst ==
    /\ cell = "logs" /\ pc = "while" /\ Continue
    /\ error' = IF ite = 0 THEN error ELSE LogError(KA, v, q, sigma)
    /\ u' = LogU(Phi, mu, v, sigma)
    /\ KA' = LogKA(Phi, u', sigma)
    /\ kind' = [kind EXCEPT !.u = "array"]
    /\ pc' = "body"
    /\ prev' = [prev EXCEPT !.row = u]
    /\ UNCHANGED <<thr, dims, cell, msg, inputs, sigma, ite, K, A, B, v, mu, nu, uprec,
                   vstar, ustar, pi, val, out, scaled>>
LogsRow ==
    /\ cell = "logs" /\ pc = "while" /\ Continue
    /\ u' = LogU(Phi, mu, v, sigma)
    /\ KA' = LogKA(Phi, u', sigma)
    /\ error' = LogError(KA', v, q, sigma)
    /\ kind' = [kind EXCEPT !.u = "array"]
    /\ pc' = "body"
    /\ prev' = [prev EXCEPT !.row = u]
    /\ UNCHANGED <<thr, dims, cell, msg, inputs, sigma, ite, K, A, B, v, mu, nu, uprec,
                   vstar, ustar, pi, val, out, scaled>>

\* a variant: the column update taken from the row potential of the
\* iteration before
LogsColFromPrev ==
    /\ cell = "logs" /\ pc = "body"
    /\ v' = LogV(nu, LogKA(Phi, prev.row, sigma), sigma)
    /\ ite' = ite + 1
    /\ pc' = "while"
    /\ prev' = [prev EXCEPT !.col = v]
    /\ UNCHANGED <<thr, dims, cell, msg, kind, inputs, sigma, error, K, A, B, KA, u, mu, nu,
                   uprec, vstar, ustar, pi, val, out, scaled>>
LogsCol ==
    /\ cell = "logs" /\ pc = "body"
    /\ v' = LogV(nu, KA, sigma)
    /\ ite' = ite + 1
    /\ pc' = "while"
    /\ prev' = [prev EXCEPT !.col = v]
    /\ UNCHANGED <<thr, dims, cell, msg, kind, inputs, sigma, error, K, A, B, KA, u, mu, nu,
                   uprec, vstar, ustar, pi, val, out, scaled>>

\* the lines after the loop of either log cell; reading u raises when no
\* cell has assigned it
LogEnd ==
    /\ pc = "while" /\ ~Continue
    /\ IF kind.u # "array"
       THEN Raise
       ELSE /\ pi' = LogPi(Phi, u, v, sigma)
            /\ val' = Value(pi', Phi, sigma)
            /\ msg' = Report
            /\ out' = [out EXCEPT ![cell] = Result(Report, u, v, pi', val')]
            /\ pc' = "ready"
            /\ UNCHANGED <<kind, u, v>>
    /\ UNCHANGED <<thr, dims, cell, inputs, sigma, ite, error, K, A, B, KA, mu, nu, uprec,
                   vstar, ustar, scaled, prev>>

LogsEnd == cell = "logs" /\ LogEnd

(***************************************************************************)
(* IPFP with log-sum-exp trick                                             *)
(***************************************************************************)
LseStart(s) ==
    /\ pc = "ready" /\ cell = Before("lse")
    /\ cell' = "lse" /\ pc' = "while"
    /\ sigma' = s
    /\ ite' = 0
    /\ v' = Zeros
    /\ mu' = MinusSigmaLog(s, p)
    /\ nu' = MinusSigmaLog(s, q)
    /\ error' = FAdd(tol, ONE)
    /\ uprec' = NoPrec
    /\ prev' = NoPrev
    /\ UNCHANGED <<thr, dims, msg, kind, inputs, K, A, B, KA, u, vstar, ustar, pi, val, out, scaled>>

\* a variant: uprec replaced before the metric is taken
LseRowPrecFirst ==
    /\ cell = "lse" /\ pc = "while" /\ Continue
    /\ vstar' = VStar(Phi, v)
    /\ u' = LseU(Phi, mu, v, vstar', sigma)
    /\ uprec' = u'
    /\ error' = LseError(u', uprec')
    /\ kind' = [kind EXCEPT !.u = "array"]
    /\ pc' = "body"
    /\ prev' = [prev EXCEPT !.row = u]
    /\ UNCHANGED <<thr, dims, cell, msg, inputs, sigma, ite, K, A, B, KA, v, mu, nu, ustar,
                   pi, val, out, scaled>>
LseRow ==
    /\ cell = "lse" /\ pc = "while" /\ Continue
    /\ vstar' = VStar(Phi, v)
    /\ u' = LseU(Phi, mu, v, vstar', sigma)
    /\ error' = LseError(u', uprec)
    /\ uprec' = u'
    /\ kind' = [kind EXCEPT !.u = "array"]
    /\ pc' = "body"
    /\ prev' = [prev EXCEPT !.row = u]
    /\ UNCHANGED <<thr, dims, cell, msg, inputs, sigma, ite, K, A, B, KA, v, mu, nu, ustar,
                   pi, val, out, scaled>>

\* a variant: the column update that folds the shift ustar into the offset
\* nu in place
LseColShiftsNu ==
    /\ cell = "lse" /\ pc = "body"
    /\ ustar' = UStar(Phi, u)
    /\ KA' = LseKA(Phi, u, ustar', sigma)
    /\ nu' = [j \in Cols |-> FAdd(nu[j], ustar'[j])]
    /\ v' = [j \in Cols |-> FAdd(nu'[j], FMul(sigma, FLog(KA'[j])))]
    /\ ite' = ite + 1
    /\ pc' = "while"
    /\ prev' = [prev EXCEPT !.col = v]
    /\ UNCHANGED <<thr, dims, cell, msg, kind, inputs, sigma, error, K, A, B, u, mu,
                   uprec, vstar, pi, val, out, scaled>>

LseCol ==
    /\ cell = "lse" /\ pc = "body"
    /\ ustar' = UStar(Phi, u)
    /\ KA' = LseKA(Phi, u, ustar', sigma)
    /\ v' = LseV(nu, ustar', KA', sigma)
    /\ ite' = ite + 1
    /\ pc' = "while"
    /\ prev' = [prev EXCEPT !.col = v]
    /\ UNCHANGED <<thr, dims, cell, msg, kind, inputs, sigma, error, K, A, B, u, mu, nu,
                   uprec, vstar, pi, val, out, scaled>>

LseEnd == cell = "lse" /\ LogEnd

\* the steps of a running cell
Step ==
    \/ MatrixRow \/ MatrixCol \/ MatrixEnd
    \/ LogsRow \/ LogsCol \/ LogsEnd
    \/ LseRow \/ LseCol \/ LseEnd

Next ==
    \/ \E s \in Sigmas : MatrixStart(s)
    \/ \E s \in Sigmas : LogsStart(s)
    \/ \E s \in Sigmas : LseStart(s)
    \/ Step

Spec == Init /\ [][Next]_vars

\* A cell that has started runs on: the interpreter executes its next line,
\* and every line of a cell completes.  Every step of a running cell moves
\* pc, so the fairness is stated on pc.
RunsOn == pc # "ready" /\ pc' \in {"ready", "while", "body"}
FairSpec == Spec /\ WF_pc(RunsOn)

(***************************************************************************)
(* The two log cells' code run by two threads in one kernel, interleaved   *)
(* between the steps above.  The threads share the kernel's global names:  *)
(* the cells assign sigma, ite, error, u, v, mu, nu, KA, pi, val at module *)
(* level.                                                                  *)
(***************************************************************************)
\* the names only the sequential run or the matrix cell assigns
apart == <<cell, pc, inputs, K, A, B, scaled, prev, dims>>

CallStart(t, s) ==
    /\ thr[t].pc = "ready"
    /\ sigma' = s
    /\ ite' = 0
    /\ v' = Zeros
    /\ mu' = MinusSigmaLog(s, p)
    /\ nu' = MinusSigmaLog(s, q)
    /\ error' = FAdd(tol, ONE)
    /\ uprec' = IF t = "lse" THEN NoPrec ELSE uprec
    /\ thr' = [thr EXCEPT ![t] = [pc |-> "while", sigma |-> s, n |-> 0]]
    /\ UNCHANGED <<apart, msg, kind, KA, u, vstar, ustar, pi, val, out>>

CallRow(t) ==
    /\ thr[t].pc = "while" /\ Continue
    /\ IF t = "logs"
       THEN /\ u' = LogU(Phi, mu, v, sigma)
            /\ KA' = LogKA(Phi, u', sigma)
            /\ error' = LogError(KA', v, q, sigma)
            /\ UNCHANGED <<vstar, uprec>>
       ELSE /\ vstar' = VStar(Phi, v)
            /\ u' = LseU(Phi, mu, v, vstar', sigma)
            /\ error' = LseError(u', uprec)
            /\ uprec' = u'
            /\ UNCHANGED KA
    /\ kind' = [kind EXCEPT !.u = "array"]
    /\ thr' = [thr EXCEPT ![t].pc = "body"]
    /\ UNCHANGED <<apart, msg, sigma, ite, v, mu, nu, ustar, pi, val, out>>

CallCol(t) ==
    /\ thr[t].pc = "body"
    /\ IF t = "logs"
       THEN /\ v' = LogV(nu, KA, sigma)
            /\ UNCHANGED <<ustar, KA>>
       ELSE /\ ustar' = UStar(Phi, u)
            /\ KA' = LseKA(Phi, u, ustar', sigma)
            /\ v' = LseV(nu, ustar', KA', sigma)
    /\ ite' = ite + 1
    /\ thr' = [thr EXCEPT ![t].pc = "while", ![t].n = @ + 1]
    /\ UNCHANGED <<apart, msg, kind, sigma, error, u, mu, nu, uprec, vstar,
                   pi, val, out>>

CallEnd(t) ==
    /\ thr[t].pc = "while" /\ ~Continue
    /\ IF kind.u # "array"
       THEN /\ msg' = "raised"
            /\ out' = [out EXCEPT ![t] = [NoRun EXCEPT !.st = "raised"]]
            /\ UNCHANGED <<pi, val>>
       ELSE /\ pi' = LogPi(Phi, u, v, sigma)
            /\ val' = Value(pi', Phi, sigma)
            /\ msg' = Report
            /\ out' = [out EXCEPT ![t] = Result(Report, u, v, pi', val')]
    /\ thr' = [thr EXCEPT ![t].pc = "done"]
    /\ UNCHANGED <<apart, kind, sigma, ite, error, KA, u, v, mu, nu, uprec,
                   vstar, ustar>>

ConcNext ==
    \E t \in Calls :
        \/ \E s \in Sigmas : CallStart(t, s)
        \/ CallRow(t)
        \/ CallCol(t)
        \/ CallEnd(t)

ConcSpec == Init /\ [][ConcNext]_vars

(***************************************************************************)
(* The matrix cell on an input of any size: nbX = n types of men and       *)
(* nbY = m types of women, so Phi is n x m, p has n entries and q has m.   *)
(* Only the shapes of the arrays are followed, by NumPy's rules for        *)
(* matmul, broadcasting, reshape, repeat and transpose; the loop test      *)
(* reads values, so here the loop may stop after any iteration.            *)
(***************************************************************************)
\* largest numbers of rows and of columns drawn for the input
MaxRows == 6
MaxCols == 4
\* the repeat count in pi = (K * A) * np.repeat(B, 5, axis = 1).T
RepeatCount == 5

\* the length that two axis lengths broadcast to; 0 when they do not
BDim(a, b) == IF a = b THEN a ELSE IF a = 1 THEN b ELSE IF b = 1 THEN a ELSE 0
\* a one-axis shape aligned with a two-axis shape
Pad(x) == IF Len(x) = 1 THEN <<1, x[1]>> ELSE x
\* shape of x * y, x / y
Broadcast(x, y) ==
    IF x = NoShape \/ y = NoShape THEN NoShape
    ELSE IF Len(x) = 1 /\ Len(y) = 1
         THEN IF BDim(x[1], y[1]) = 0 THEN NoShape ELSE <<BDim(x[1], y[1])>>
         ELSE LET r == BDim(Pad(x)[1], Pad(y)[1])
                  c == BDim(Pad(x)[2], Pad(y)[2])
              IN  IF r = 0 \/ c = 0 THEN NoShape ELSE <<r, c>>
\* shape of x @ y for two-axis x, y
MatMul(x, y) ==
    IF x = NoShape \/ y = NoShape \/ x[2] # y[1] THEN NoShape ELSE <<x[1], y[2]>>
\* shape of x.T, of x.flatten(), of two_d(x), of np.repeat(x, k, axis = 1)
Transpose(x) == IF Len(x) = 2 THEN <<x[2], x[1]>> ELSE x
Size(x) == IF Len(x) = 2 THEN x[1] * x[2] ELSE x[1]
Flatten(x) == IF x = NoShape THEN NoShape ELSE <<Size(x)>>
TwoD(x) == IF x = NoShape THEN NoShape ELSE <<Size(x), 1>>
Repeat(x, k) == IF x = NoShape THEN NoShape ELSE <<x[1], x[2] * k>>

\* every name but dims
others == <<cell, pc, msg, kind, inputs, sigma, ite, error, K, A, B, KA, u, v,
            mu, nu, uprec, vstar, ustar, pi, val, out, scaled, prev, thr>>

\* the setup cell with nbX = n, nbY = m; values are not followed
SizeInit ==
    /\ \E n \in 1..MaxRows, m \in 1..MaxCols :
           dims = [NoDims EXCEPT !.n = n, !.m = m]
    /\ cell = "setup" /\ pc = "ready" /\ msg = "none"
    /\ kind = [A |-> "sparse", u |-> "unbound"]
    /\ Phi = Unset /\ p = Unset /\ q = Unset
    /\ tol = 0
    /\ maxite \in 0..MaxIte
    /\ sigma = 0 /\ ite = 0 /\ error = 0
    /\ K = Unset /\ A = Unset /\ B = Unset /\ KA = Unset
    /\ u = Unset /\ v = Unset /\ mu = Unset /\ nu = Unset
    /\ uprec = Unset /\ vstar = Unset /\ ustar = Unset
    /\ pi = Unset /\ val = 0
    /\ out = [c \in Solvers |-> NoRun]
    /\ scaled = NoScaled
    /\ prev = NoPrev
    /\ thr = NoCalls

\* K = np.exp(Phi/sigma) ; B = two_d(np.repeat(1, nbY))
SizeStart ==
    /\ dims.pc = "ready"
    /\ dims' = [dims EXCEPT !.pc = "while", !.ite = 0,
                            !.K = <<dims.n, dims.m>>,
                            !.B = TwoD(<<dims.m>>)]
    /\ UNCHANGED others

\* A = two_d(p/(K @ B).flatten(order='F')) ; KA = (A.T @ K) ;
\* error = np.max(abs(np.multiply(KA,B.flatten()/q)-1))
SizeRow ==
    /\ dims.pc = "while" /\ dims.ite < maxite
    /\ LET SA == TwoD(Broadcast(<<dims.n>>, Flatten(MatMul(dims.K, dims.B))))
           SKA == MatMul(Transpose(SA), dims.K)
       IN  dims' = [dims EXCEPT !.pc = "body", !.A = SA, !.KA = SKA,
                        !.err = Broadcast(SKA,
                                    Broadcast(Flatten(dims.B), <<dims.m>>))]
    /\ UNCHANGED others

\* B = (q / KA).T ; ite = ite + 1
SizeCol ==
    /\ dims.pc = "body"
    /\ dims' = [dims EXCEPT !.pc = "while", !.ite = @ + 1,
                            !.B = Transpose(Broadcast(<<dims.m>>, dims.KA))]
    /\ UNCHANGED others

\* the lines after the loop: the test fails at the cap, or on an error that
\* an iteration has computed; np.log(A) raises when no iteration has run
SizeEnd ==
    /\ dims.pc = "while" /\ (dims.ite >= maxite \/ dims.ite >= 1)
    /\ LET SPi == Broadcast(Broadcast(dims.K, dims.A),
                            Transpose(Repeat(dims.B, RepeatCount)))
       IN  dims' = IF dims.ite = 0 \/ SPi = NoShape
                   THEN [dims EXCEPT !.pc = "raised",
                             !.u = IF dims.ite = 0 THEN NoShape ELSE dims.A,
                             !.v = IF dims.ite = 0 THEN NoShape ELSE dims.B]
                   ELSE [dims EXCEPT !.pc = "done", !.u = dims.A,
                             !.v = dims.B, !.pi = SPi]
    /\ UNCHANGED others

SizeNext == SizeStart \/ SizeRow \/ SizeCol \/ SizeEnd

SizeSpec == SizeInit /\ [][SizeNext]_vars

-----------------------------------------------------------------------------
(***************************************************************************)
(* Properties.  A solver cell c has ended normally when out[c].st is       *)
(* "converged" or "maxite"; out[c] then holds what the cell left.          *)
(***************************************************************************)
Ended(c) == out[c].st \in {"converged", "maxite"}

\* rounding error that a marginal sum or an entry can carry in this format
Noise == ONE \div 25

\* largest relative deviation of the row sums of pp from p, of its column
\* sums from q
RowViol(pp) ==
    FMax([i \in Rows |-> FAbs(FSub(FDiv(FSum(pp[i], nbY), p[i]), ONE))], nbX)
ColViol(pp) ==
    FMax([j \in Cols |->
        FAbs(FSub(FDiv(FSum([i \in Rows |-> pp[i][j]], nbX), q[j]), ONE))], nbY)

\* C1: for a valid input (tol > 0), a solver cell that reports convergence
\* leaves a coupling pi whose row sums are within tol of p and whose column
\* sums are within tol of q (relative violation, allowing the rounding of
\* the sums).
C1Marginals ==
    \A c \in Solvers :
        (tol > 0 /\ out[c].st = "converged") =>
            /\ FLe(RowViol(out[c].pi), FAdd(tol, Noise))
            /\ FLe(ColViol(out[c].pi), FAdd(tol, Noise))

\* C3: the reported status matches the reason the loop ended: "converged"
\* exactly when the metric at loop exit is <= tol, "maximum number of
\* iterations reached" exactly when the cap was hit with the metric still
\* above tol.
C3StatusMatchesExit ==
    \A c \in Solvers :
        (tol > 0 /\ Ended(c)) =>
            /\ (out[c].st = "converged") <=> FLe(out[c].error, tol)
            /\ (out[c].st = "maxite") <=>
                   (out[c].ite >= maxite /\ FGt(out[c].error, tol))

\* C4: a cell whose loop stops at the cap with the metric above tol ends
\* normally: it reports the cap as its status and leaves u, v, pi and val.
C4CapEndsNormally ==
    \A c \in Solvers :
        (tol > 0 /\ cell = c /\ pc = "ready" /\ ite >= maxite /\ FGt(error, tol)) =>
            /\ msg = "maxite"
            /\ out[c].st = "maxite"
            /\ out[c].u # Unset /\ out[c].v # Unset /\ out[c].pi # Unset

\* C5: the log-sum-exp cell, for finite Phi and any sigma > 0, leaves a
\* finite coupling and a finite objective val.
C5LseFinite ==
    (tol > 0 /\ Ended("lse")) =>
        /\ IsFin(out["lse"].val)
        /\ \A i \in Rows, j \in Cols : IsFin(out["lse"].pi[i][j])

\* C8: an invalid input (here tol <= 0) is rejected before the first
\* iteration: no loop body runs and no cell leaves a result.
C8RejectsInvalid ==
    (tol <= 0) => (pc # "body" /\ ite = 0 /\ \A c \in Solvers : ~Ended(c))

\* C6: in the log-sum-exp cell every exponent is non-positive, in every
\* iteration: (Phi_ij - v_j - vstar_i)/sigma <= 0 in the u-update, once
\* vstar is computed, and (Phi_ij - u_i - ustar_j)/sigma <= 0 in the
\* v-update, once ustar is computed.
C6ExponentsNonPositive ==
    /\ (cell = "lse" /\ pc = "body") =>
           \A i \in Rows, j \in Cols : FLe(UArg(Phi, v, vstar, sigma, i, j), 0)
    /\ (cell = "lse" /\ pc = "while" /\ ite >= 1) =>
           \A i \in Rows, j \in Cols : FLe(VArg(Phi, u, ustar, sigma, i, j), 0)

\* a second iteration's u-update with a strictly negative exponent, after a
\* v-update that had one too
C6Witness ==
    /\ cell = "lse" /\ pc = "body" /\ ite >= 1
    /\ \E i \in Rows, j \in Cols : UArg(Phi, v, vstar, sigma, i, j) < 0
    /\ \E i \in Rows, j \in Cols : VArg(Phi, uprec, ustar, sigma, i, j) < 0

\* one step of a cell seen from its counter: a start sets ite to 0, the loop
\* body is entered only with error > tol and ite < maxite and leaves ite
\* alone until its last line, which adds exactly 1
LoopCounts ==
    /\ (pc = "ready" /\ pc' = "while") => ite' = 0
    /\ (pc = "while" /\ pc' = "body") =>
           (FGt(error, tol) /\ ite < maxite /\ ite' = ite)
    /\ (pc = "body") => (pc' = "while" /\ ite' = ite + 1)
    /\ (pc = "while" /\ pc' = "ready") => ite' = ite

\* C2 as stated: every loop terminates, ite counts the bodies from 0 by 1 and
\* never passes maxite, and the loop is left only with error <= tol or with
\* ite at maxite.
C2OnlyTwoExits ==
    /\ [](ite <= maxite)
    /\ [][LoopCounts /\ ((pc = "while" /\ pc' = "ready") =>
                             (FLe(error, tol) \/ ite >= maxite))]_vars
    /\ (pc # "ready") ~> (pc = "ready")

\* C2 amended: every loop terminates, ite counts the bodies from 0 by 1 and
\* never passes maxite, and the loop is left exactly when the test
\* 'error > tol and ite < maxite' is false: with error <= tol, with error
\* nan, or with ite at maxite.
C2LoopTerminates ==
    /\ [](ite <= maxite)
    /\ [][LoopCounts /\ ((pc = "while" /\ pc' = "ready") =>
                             (FLe(error, tol) \/ IsNaN(error) \/ ite >= maxite))]_vars
    /\ (pc # "ready") ~> (pc = "ready")

\* a loop that ran to the cap with the metric still above tol, and ended
C2Witness ==
    /\ cell = "lse" /\ pc = "ready" /\ msg = "maxite"
    /\ maxite >= 2 /\ ite = maxite /\ FGt(error, tol)

\* C9 as stated: every entry of the coupling a cell leaves is >= 0, in all
\* three cells, for every sigma > 0 and any number of iterations.
C9NonNegative ==
    \A c \in Solvers :
        Ended(c) => \A i \in Rows, j \in Cols : FLe(0, out[c].pi[i][j])

\* C9 amended: no entry of the coupling a cell leaves is negative: each is
\* >= 0 or, in the matrix and plain log-domain cells when an exponential has
\* overflowed, nan; the log-sum-exp cell leaves only finite entries >= 0.
C9NeverNegative ==
    \A c \in Solvers :
        Ended(c) =>
            \A i \in Rows, j \in Cols :
                /\ IsNaN(out[c].pi[i][j]) \/ out[c].pi[i][j] >= 0
                /\ (c = "lse") => (FLe(0, out[c].pi[i][j]) /\ IsFin(out[c].pi[i][j]))

\* all three cells have ended at the smallest sigma, the matrix cell with a
\* nan entry, the log-sum-exp cell with an entry that is exactly 0 and one
\* that is not
C9Witness ==
    /\ \A c \in Solvers : Ended(c) /\ out[c].sigma = 20
    /\ \E i \in Rows, j \in Cols : IsNaN(out["matrix"].pi[i][j])
    /\ \E i \in Rows, j \in Cols : out["lse"].pi[i][j] = 0
    /\ \E i \in Rows, j \in Cols : out["lse"].pi[i][j] > 0

\* two finite numbers at most t apart
Close(x, y, t) == IsFin(x) /\ IsFin(y) /\ Mag(x - y) <= t
\* the couplings, and the potentials up to an additive constant, that two
\* cells c and d left agree within the numerical tolerance
PiTol == ONE \div 200
PotTol == Noise
SamePi(c, d) ==
    \A i \in Rows, j \in Cols : Close(out[c].pi[i][j], out[d].pi[i][j], PiTol)
SamePotentials(c, d) ==
    LET k == out[c].u[1] - out[d].u[1]
    IN  /\ \A i \in Rows : Close(out[c].u[i], out[d].u[i] + k, PotTol)
        /\ \A j \in Cols : Close(out[c].v[j], out[d].v[j] - k, PotTol)
\* the three cells ran on the same input with the same moderate sigma (Phi /
\* sigma within the range of exp) and a cap that lets them finish
ModerateRuns ==
    /\ \A c \in Solvers : out[c].st # "none" /\ out[c].sigma = ONE
    /\ tol > 0 /\ maxite >= 3

Shifts == {-ONE \div 2, ONE \div 4}
Shift(x, c) == [i \in DOMAIN x |-> FAdd(x[i], c)]
\* equal, or finite and at most t apart
Same(x, y, t) == x = y \/ Close(x, y, t)
\* the matrix cell ran, or runs, with a sigma at which the format resolves
\* the scalings A and B
Resolved(s) == s = ONE

\* C10: the coupling, and with it the objective, is unchanged by a gauge
\* change: pi computed from (u + c, v - c) is the pi a log cell left; pi
\* computed from (A * k, B / k) is the pi the matrix cell left; and the
\* matrix loop started from B = k * ones has the same error in every
\* iteration and leaves the same pi and val (up to rounding).
C10GaugeInvariant ==
    /\ \A c \in {"logs", "lse"} : \A d \in Shifts :
           Ended(c) =>
               LogPi(Phi, Shift(out[c].u, d), Shift(out[c].v, -d), out[c].sigma)
                   = out[c].pi
    /\ (cell = "matrix" /\ pc = "body" /\ Resolved(sigma)) =>
           Same(scaled.error, error, Noise)
    /\ (Ended("matrix") /\ Resolved(out["matrix"].sigma)) =>
           /\ Same(scaled.val, out["matrix"].val, Noise)
           /\ \A i \in Rows, j \in Cols :
                  /\ Same(scaled.pi[i][j], out["matrix"].pi[i][j], PiTol)
                  /\ Same(MatPi(K, [x \in Rows |-> FMul(A[x], scaled.k)],
                                [y \in Cols |-> FDiv(B[y], scaled.k)])[i][j],
                          out["matrix"].pi[i][j], PiTol)

\* all three cells have ended, the matrix cell after two iterations or more
\* with a scaled loop whose B is not the cell's B, the log cells with
\* potentials that are not 0
C10Witness ==
    /\ \A c \in Solvers : Ended(c)
    /\ Resolved(out["matrix"].sigma) /\ Phi = PhiOf(300)
    /\ out["matrix"].ite >= 2 /\ scaled.k = 2 * ONE /\ scaled.B # B
    /\ IsFin(scaled.val)
    /\ out["lse"].u[1] # 0 /\ out["logs"].v[1] # 0

\* a row update (the loop test passed) and a column update of cell c
RowStep(c) == cell = c /\ pc = "while" /\ pc' = "body"
ColStep(c) == cell = c /\ pc = "body" /\ pc' = "while"

C12WarmStart ==
    \A c \in {"logs", "lse"} :
        (/\ tol > 0 /\ Ended(c)
         /\ out[Before(c)].st = "converged"
         /\ out[Before(c)].sigma = out[c].sigma
         /\ \A j \in Cols : IsFin(out[Before(c)].v[j])) =>
            (out[c].st = "converged" /\ out[c].ite <= 1)

\* C13: the inputs are read-only to a solve: no step changes Phi, p, q, tol
\* or maxite; sigma, the kernel K of the matrix cell and the offsets mu, nu
\* of the log cells are set by the lines before the loop (K by the matrix
\* cell only, mu and nu by the log cells only) and no loop iteration, nor
\* the lines after the loop, changes them.
C13InputsReadOnly ==
    [][ /\ inputs' = inputs
        /\ (pc # "ready") =>
               (sigma' = sigma /\ K' = K /\ mu' = mu /\ nu' = nu)
        /\ (K' # K) => cell' = "matrix"
        /\ (mu' # mu \/ nu' # nu) => cell' \in {"logs", "lse"}
      ]_vars

\* the log-sum-exp cell has ended after two iterations or more, with the
\* kernel of the matrix cell and its own offsets in place
C13Witness ==
    /\ cell = "lse" /\ pc = "ready" /\ ite >= 2
    /\ K = Kernel(Phi, out["matrix"].sigma)
    /\ mu = MinusSigmaLog(sigma, p) /\ nu = MinusSigmaLog(sigma, q)

\* C14: the coupling pi is not part of the iterated state: the lines before
\* a loop and the loop's iterations leave pi alone, and pi is written once,
\* by the lines after the loop, from the potentials the loop left: from K,
\* A, B in the matrix cell, from Phi, u, v in the log cells.
C14PiAfterLoop ==
    [][ /\ (pc' # "ready") => pi' = pi
        /\ (pc = "while" /\ pc' = "ready" /\ msg' # "raised") =>
               /\ (cell = "matrix") => (pi' = MatPi(K, A, B) /\ A' = A /\ B' = B)
               /\ (cell # "matrix") =>
                      (pi' = LogPi(Phi, u, v, sigma) /\ u' = u /\ v' = v)
      ]_vars

\* the log-domain cell in its third iteration, pi still being what the
\* matrix cell left
C14Witness ==
    /\ cell = "logs" /\ pc = "body" /\ ite >= 2
    /\ pi # Unset /\ pi = out["matrix"].pi

\* C15: a cell reads no state left by another cell: the lines after a loop
\* read A, or u, which the cell itself assigns only in its loop body, so
\* whenever a cell leaves its loop it has run the body at least once, and
\* what it reads there is an array of its own.
C15OwnState ==
    [][ (pc = "while" /\ pc' = "ready") =>
            /\ ite >= 1
            /\ (cell = "matrix") => kind.A = "array"
            /\ (cell # "matrix") => kind.u = "array"
      ]_vars

\* C16: two solves that run at the same time do not interfere: each owns
\* its sigma, ite, error, u, v, KA, pi.  While a thread executes a cell, the
\* sigma it reads is the sigma it bound and the ite it reads counts its own
\* column updates, and so do the sigma and the ite of the result it leaves.
C16OwnVariables ==
    \A t \in Calls :
        /\ (thr[t].pc \in {"while", "body"}) =>
               (sigma = thr[t].sigma /\ ite = thr[t].n)
        /\ (thr[t].pc = "done" /\ out[t].st # "raised") =>
               (out[t].sigma = thr[t].sigma /\ out[t].ite = thr[t].n)

\* some entry of a vector, of a matrix, is inf, -inf or nan
BadV(x) == \E i \in DOMAIN x : ~IsFin(x[i])
BadM(x) == \E i \in Rows, j \in Cols : ~IsFin(x[i][j])

\* the running cell c holds a non-finite value that it has computed itself
Tainted(c) ==
    /\ cell = c /\ pc # "ready"
    /\ IF c = "matrix"
       THEN \/ BadM(K) \/ BadV(B) \/ ~IsFin(error)
            \/ ((pc = "body" \/ ite >= 1) /\ (BadV(A) \/ BadV(KA)))
       ELSE /\ (pc = "body" \/ ite >= 1)
            /\ (BadV(u) \/ BadV(v) \/ BadV(KA) \/ ~IsFin(error))

\* C17 as stated: in the matrix cell and the log-domain cell a non-finite
\* intermediate value reaches the potentials, the coupling and the
\* objective that the cell leaves, and the objective is nan.
C17Propagates ==
    [][ \A c \in {"matrix", "logs"} :
            (Tainted(c) /\ pc' = "ready" /\ msg' # "raised") =>
                /\ BadV(u') \/ BadV(v')
                /\ BadM(pi')
                /\ IsNaN(val')
      ]_vars

\* C17, amended: a non-finite intermediate value of the matrix cell or the
\* log-domain cell is never caught, masked or retried: it stays in the
\* cell's state through every later iteration, no step resets ite or
\* sigma, and a cell that reaches its last lines leaves a non-finite
\* potential and the objective nan; the matrix cell also leaves a
\* non-finite coupling, while the log-domain cell's coupling can be finite
\* (exp(-inf) = 0).  A cell whose loop never ran ends by the exception of
\* its first line after the loop instead.
C17NotMasked ==
    [][ \A c \in {"matrix", "logs"} :
            Tainted(c) =>
                /\ (pc' # "ready") =>
                       (Tainted(c)' /\ ite' >= ite /\ sigma' = sigma)
                /\ (pc' = "ready") =>
                       \/ msg' = "raised" /\ ite = 0
                       \/ /\ BadV(u') \/ BadV(v')
                          /\ IsNaN(val')
                          /\ (c = "matrix") => BadM(pi')
      ]_vars

\* the log-domain cell has ended with an infinite row potential, the
\* objective nan and a coupling whose entries are all finite
C17Witness ==
    /\ cell = "logs" /\ pc = "ready" /\ Ended("logs")
    /\ BadV(u) /\ IsNaN(val) /\ ~BadM(pi)

\* C18: the matrix cell iterates as the notebook's text states the
\* procedure, a(t+1) = p / (K b(t)) and b(t+1) = q / (K^T a(t)): from the
\* second iteration on, the column update takes the row scaling that the
\* iteration started with, not the one its row update has just computed.
C18BothFromPrevious ==
    [][ /\ RowStep("matrix") => A' = MatA(K, p, B)
        /\ (ColStep("matrix") /\ ite >= 1) => B' = MatB(q, MatKA(K, prev.row))
      ]_vars

\* C20: right after the row update A = p / (K B) of any iteration of the
\* matrix cell, the coupling A_i K_ij B_j formed from the new A and the
\* current B has the row sums p_i (here up to the rounding of the number
\* format, where it resolves the kernel).
C20RowSums ==
    (cell = "matrix" /\ pc = "body" /\ Resolved(sigma)) =>
        FLe(RowViol(MatPi(K, A, B)), Noise)

\* a row update of a later iteration, on a Phi that is not flat and with a
\* B that is no longer the start
C20Witness ==
    /\ cell = "matrix" /\ pc = "body" /\ Resolved(sigma)
    /\ ite >= 1 /\ Phi = PhiOf(300) /\ B # Ones
    /\ A = MatA(K, p, B)

\* the total mass np.sum(pp) of a coupling
Mass(pp) == FSum([i \in Rows |-> FSum(pp[i], nbY)], nbX)

C22MetricBetweenUpdates ==
    [][ /\ RowStep("matrix") =>
               (error' = MatError(MatKA(K, A'), B, q) /\ A' = MatA(K, p, B) /\ B' = B)
        /\ RowStep("logs") =>
               (error' = LogError(LogKA(Phi, u', sigma), v, q, sigma)
                /\ u' = LogU(Phi, mu, v, sigma) /\ v' = v)
        /\ (ColStep("matrix") \/ ColStep("logs")) => error' = error
        /\ (cell = "matrix" /\ pc = "while" /\ ite >= 1) =>
               /\ error = MatError(MatKA(K, A), prev.col, q)
               /\ (pc' = "ready") => v' = MinusSigmaLog(sigma, B)
        /\ (cell = "logs" /\ pc = "while" /\ ite >= 1) =>
               /\ error = LogError(LogKA(Phi, u, sigma), prev.col, q, sigma)
               /\ (pc' = "ready") => out'["logs"].v = v
      ]_vars

\* the log-domain cell has ended after two iterations or more, and the
\* metric taken on the column potential it leaves would have been another
C22Witness ==
    /\ cell = "logs" /\ pc = "ready" /\ Ended("logs") /\ ite >= 2
    /\ IsFin(error) /\ prev.col # v
    /\ LogError(KA, v, q, sigma) # error

\* the scaling exp(-x / s) of a potential x: a of u, b of v
ExpNeg(x, s) == [i \in DOMAIN x |-> FExp(FDiv(FNeg(x[i]), s))]
\* two vectors agree entry by entry within t
CloseV(x, y, t) == \A i \in DOMAIN x : Close(x[i], y[i], t)
\* rounding error of a row scaling, whose entries are near p / nbY
ATol == ONE \div 250

AllFin(x) == \A i \in DOMAIN x : IsFin(x[i])

\* C24 as stated: for any Phi, v and sigma the stabilised u-update of the
\* log-sum-exp cell equals the plain u-update of the log-domain cell on the
\* same v, and its v-update the plain v-update on the same u (up to
\* rounding), so that the two cells have the same iterates.
C24SameUpdate ==
    [][ /\ RowStep("lse") => CloseV(u', LogU(Phi, mu, v, sigma), Noise)
        /\ ColStep("lse") =>
               CloseV(v', LogV(nu, LogKA(Phi, u, sigma), sigma), Noise)
      ]_vars

\* C24, amended: the stabilised update equals the plain update, up to
\* rounding, whenever the plain update is finite, that is whenever its
\* exponentials do not overflow and their sum does not underflow to 0.
C24LogSumExp ==
    [][ /\ (RowStep("lse") /\ AllFin(LogU(Phi, mu, v, sigma))) =>
               CloseV(u', LogU(Phi, mu, v, sigma), Noise)
        /\ (ColStep("lse") /\ AllFin(LogV(nu, LogKA(Phi, u, sigma), sigma))) =>
               CloseV(v', LogV(nu, LogKA(Phi, u, sigma), sigma), Noise)
      ]_vars

\* a u-update of a later iteration of the log-sum-exp cell with a shift
\* that is not 0, where the plain update is finite too
C24Witness ==
    /\ cell = "lse" /\ pc = "body" /\ ite >= 1 /\ tol > 0
    /\ vstar[1] # 0 /\ v # Zeros
    /\ AllFin(LogU(Phi, mu, v, sigma))
    /\ u = LseU(Phi, mu, v, vstar, sigma)

\* the argument of the logarithm of the u-update of row i: the sum of the
\* shifted exponentials over the columns
RowLogArg(i) == FSum([j \in Cols |-> FExp(UArg(Phi, v, vstar, sigma, i, j))], nbY)

\* C25: in the log-sum-exp cell the argument of every logarithm taken in
\* the loop is bounded: the sum of the shifted exponentials of a row lies in
\* [1, nbY], the sum KA_j of a column in [1, nbX], one term of each sum
\* being exp(0); so the loop takes no log(0).
C25LogArgsBounded ==
    /\ (cell = "lse" /\ pc = "body") =>
           \A i \in Rows : ONE <= RowLogArg(i) /\ RowLogArg(i) <= nbY * ONE
    /\ (cell = "lse" /\ pc = "while" /\ ite >= 1) =>
           \A j \in Cols : ONE <= KA[j] /\ KA[j] <= nbX * ONE

\* after two iterations or more at the smallest sigma, one column sum is
\* exactly 1 (every other term has underflowed) and another is larger
C25Witness ==
    /\ cell = "lse" /\ pc = "while" /\ ite >= 2 /\ tol > 0
    /\ sigma = 20 /\ Phi = PhiOf(300)
    /\ \E j \in Cols : KA[j] = ONE
    /\ \E j \in Cols : KA[j] > ONE

\* C26: for a surplus matrix of any size n x m, the matrix cell that has
\* run its loop once or more ends with the coupling as an n x m array, u as
\* n potentials and v as m potentials.
C26AnySize ==
    (dims.pc \in {"done", "raised"} /\ dims.ite >= 1) =>
        /\ dims.pc = "done"
        /\ dims.pi = <<dims.n, dims.m>>
        /\ dims.u = <<dims.n, 1>>
        /\ dims.v = <<dims.m, 1>>

\* C27 as stated: whatever the input, a cell whose cap is 1 or more leaves
\* its loop after one iteration or more, and the log-sum-exp cell whose cap
\* is 2 or more after two iterations or more.
C27AtLeastOne ==
    [][ (pc = "while" /\ pc' = "ready" /\ maxite >= 1) =>
            /\ ite >= 1
            /\ (cell = "lse" /\ maxite >= 2) => ite >= 2
      ]_vars

\* C27, amended: the same for every input whose tolerance is finite, so
\* that error = tol + 1 is above tol.
C27MinIterations ==
    [][ (pc = "while" /\ pc' = "ready" /\ maxite >= 1 /\ IsFin(tol)) =>
            /\ ite >= 1
            /\ (cell = "lse" /\ maxite >= 2) => ite >= 2
      ]_vars

\* the log-sum-exp cell on a flat Phi, where the second iteration repeats
\* the first: it has stopped after exactly two iterations, below the cap,
\* with the metric 0
C27Witness ==
    /\ cell = "lse" /\ pc = "ready" /\ Ended("lse")
    /\ Phi = PhiOf(0) /\ IsFin(tol) /\ tol > 0 /\ maxite >= 3
    /\ ite = 2 /\ error = 0

\* the v-update of the log-sum-exp cell applied to the row potential uu
LseVOf(uu) == LseV(nu, UStar(Phi, uu), LseKA(Phi, uu, UStar(Phi, uu), sigma), sigma)

\* C28: in the log-sum-exp cell the metric of an iteration is
\* max_i |u_i - uprec_i|, the absolute change of u against the u of the
\* iteration before (-inf in the first), taken by the row step after the
\* u-update; the column step of the same iteration always follows and
\* leaves the metric alone; so at every loop test, and in what the cell
\* leaves, v is the v-update of the u that the metric was taken on.
C28ChangeOfU ==
    [][ (cell = "lse" /\ pc # "ready") =>
            /\ RowStep("lse") =>
                   /\ u' = LseU(Phi, mu, v, VStar(Phi, v), sigma)
                   /\ error' = LseError(u', IF ite = 0 THEN NoPrec ELSE u)
                   /\ uprec' = u' /\ v' = v
            /\ (pc = "body") =>
                   /\ pc' = "while" /\ ite' = ite + 1
                   /\ error' = error /\ u' = u /\ v' = LseVOf(u)
            /\ (pc = "while" /\ ite >= 1) =>
                   /\ v = LseVOf(u)
                   /\ error = LseError(u, IF ite = 1 THEN NoPrec ELSE prev.row)
                   /\ (pc' = "ready") =>
                          (out'["lse"].u = u /\ out'["lse"].v = v)
      ]_vars

\* the log-sum-exp cell has stopped on its tolerance after two iterations
\* or more, and the column update after the test that passed has changed v
C28Witness ==
    /\ cell = "lse" /\ pc = "ready" /\ out["lse"].st = "converged"
    /\ IsFin(tol) /\ tol > 0 /\ ite >= 2 /\ FLe(error, tol)
    /\ v # prev.col /\ u # prev.row
    /\ v = LseVOf(u)

\* C29: when the metric of the matrix cell or the log-domain cell has
\* become nan, the next loop test fails whatever the counter, no further
\* iteration runs, and with the counter below the cap the cell reports
\* convergence and leaves an objective that is nan.
C29NanReportsConverged ==
    [][ (cell \in {"matrix", "logs"} /\ pc = "while" /\ IsNaN(error)) =>
            /\ pc' = "ready" /\ ite' = ite
            /\ (ite < maxite) =>
                   /\ msg' = "converged" /\ out'[cell].st = "converged"
                   /\ IsNaN(out'[cell].val)
                   /\ BadV(out'[cell].u) \/ BadV(out'[cell].v)
      ]_vars

\* the matrix cell has reported convergence below the cap, for a valid
\* tolerance, with its metric and its objective nan
C29Witness ==
    /\ cell = "matrix" /\ pc = "ready" /\ msg = "converged"
    /\ IsFin(tol) /\ tol > 0 /\ ite >= 1 /\ ite < maxite
    /\ IsNaN(error) /\ IsNaN(val)

\* every entry of a vector is finite and strictly positive
AllPos(x) == \A i \in DOMAIN x : IsFin(x[i]) /\ x[i] > 0

\* C30 as stated: in the matrix cell, for every finite Phi and every sigma,
\* each A_i and B_j is finite and strictly positive after every update, and
\* the u and v the cell leaves are finite.
C30Positive ==
    /\ (cell = "matrix" /\ pc = "body") => (AllPos(A) /\ AllPos(B))
    /\ (cell = "matrix" /\ pc = "while" /\ ite >= 1) => (AllPos(A) /\ AllPos(B))
    /\ (Ended("matrix") /\ out["matrix"].ite >= 1) =>
           (AllFin(out["matrix"].u) /\ AllFin(out["matrix"].v))

\* C30, amended: the same where the kernel exp(Phi / sigma) is within the
\* range of the number format, so that every K_ij is finite and positive.
C30PositiveInRange ==
    /\ (cell = "matrix" /\ pc # "ready" /\ Resolved(sigma)) =>
           /\ \A i \in Rows : AllPos(K[i])
           /\ (pc = "body" \/ ite >= 1) => (AllPos(A) /\ AllPos(B))
    /\ (Ended("matrix") /\ out["matrix"].ite >= 1
            /\ Resolved(out["matrix"].sigma)) =>
           (AllFin(out["matrix"].u) /\ AllFin(out["matrix"].v))

\* the matrix cell has ended after two iterations or more on a Phi that is
\* not flat, with positive scalings and finite potentials
C30Witness ==
    /\ cell = "matrix" /\ pc = "ready" /\ Ended("matrix") /\ Resolved(sigma)
    /\ Phi = PhiOf(300) /\ ite >= 2
    /\ AllPos(A) /\ AllPos(B) /\ B # Ones
    /\ AllFin(u) /\ AllFin(v)

=============================================================================
